---------------------------- MODULE Spec2Model ----------------------------
(***************************************************************************)
(* dxyflake: a Snowflake-style generator of 64-bit identifiers             *)
(*   | 1 bit unused | 41 bit time | 5 bit machine | 5 bit service | 12 seq *)
(* Model of src/dxyflake.go: NewDxyflake, NextID, toID and Decompose.      *)
(*                                                                         *)
(* Go's int64/uint64 values do not fit TLC's 32-bit integers, so a 64-bit  *)
(* word is a tuple of four 16-bit limbs, least significant first, and the  *)
(* operators below compute on it exactly as the machine does (modulo 2^64, *)
(* int64 in two's complement).  uint16 values are plain numbers.           *)
(***************************************************************************)
EXTENDS Integers, Sequences, FiniteSets, TLC

\* src/dxyflake.go:20-25, 150
BitLenTime == 41
BitLenMachineID == 5
BitLenServiceID == 5
BitLenSequence == 12
dxyflakeTimeUnit == 10000000

\* bounds of the model
MaxTick == 4
MaxCalls == 3
NumProcs == 2

VARIABLES
    clock,      \* the wall clock, time.Now(): [tick, nsec]
    settings,   \* the Settings last given to NewDxyflake
    df,         \* the generator NewDxyflake returned, or Nil
    invoked,    \* the providers and validators the last NewDxyflake invoked, in order
    pc,         \* where each goroutine is in NextID
    mutex,      \* the goroutine holding df.mutex, or 0
    overtime,   \* NextID's local overtime, of the goroutine holding the mutex
    sleepLeft,  \* what is left of the time.Sleep in progress, in nsec
    log,        \* what the NextID calls returned, in the order they returned
    regressed,  \* whether the wall clock has moved backwards since construction
    codec       \* the fields, identifier and parts of the encoding under test

vars == <<clock, settings, df, invoked, pc, mutex, overtime, sleepLeft, log, regressed, codec>>

\* Go's nil: a nil pointer or a nil func
Nil == [nil |-> TRUE]

---------------------------------------------------------------------------
(* 64-bit machine arithmetic on limbs                                      *)

Limb == 2^16

Pow2(k) == 2^k

\* uint64(n) / int64(n) of a small non-negative number n < 2^31
U64(n) == <<n % Limb, (n \div Limb) % Limb, 0, 0>>

\* the limb of word a at position i (1 = least significant), 0 outside it
LimbAt(a, i) == IF i >= 1 /\ i <= 4 THEN a[i] ELSE 0

\* a + b modulo 2^64
Add64(a, b) ==
    LET s1 == a[1] + b[1]
        s2 == a[2] + b[2] + (s1 \div Limb)
        s3 == a[3] + b[3] + (s2 \div Limb)
        s4 == a[4] + b[4] + (s3 \div Limb)
    IN  <<s1 % Limb, s2 % Limb, s3 % Limb, s4 % Limb>>

\* two's complement negation and subtraction modulo 2^64
Neg64(a) == Add64(<<Limb - 1 - a[1], Limb - 1 - a[2], Limb - 1 - a[3], Limb - 1 - a[4]>>, U64(1))

Sub64(a, b) == Add64(a, Neg64(b))

\* a * k modulo 2^64, for a small factor 0 <= k < 2^15
MulSmall64(a, k) ==
    LET p1 == a[1] * k
        p2 == a[2] * k + (p1 \div Limb)
        p3 == a[3] * k + (p2 \div Limb)
        p4 == a[4] * k + (p3 \div Limb)
    IN  <<p1 % Limb, p2 % Limb, p3 % Limb, p4 % Limb>>

\* the sign bit of an int64
IsNeg64(a) == a[4] >= Limb \div 2

\* a < b as uint64
LtU64(a, b) ==
    \E i \in 1..4 : a[i] < b[i] /\ \A j \in (i + 1)..4 : a[j] = b[j]

\* a < b as int64
LtI64(a, b) ==
    IF IsNeg64(a) # IsNeg64(b) THEN IsNeg64(a) ELSE LtU64(a, b)

\* a << k on uint64 (bits shifted beyond bit 63 are lost), 0 <= k < 64
Shl64(a, k) ==
    LET q == k \div 16
        r == k % 16
    IN  [i \in 1..4 |->
            ((LimbAt(a, i - q) * Pow2(r)) % Limb)
            + (LimbAt(a, i - q - 1) \div Pow2(16 - r))]

\* a >> k on uint64 (logical shift), 0 <= k < 64
Shr64(a, k) ==
    LET q == k \div 16
        r == k % 16
    IN  [i \in 1..4 |->
            (LimbAt(a, i + q) \div Pow2(r))
            + ((LimbAt(a, i + q + 1) % Pow2(r)) * Pow2(16 - r))]

\* bitwise or / and of two numbers of n bits
RECURSIVE BitOr(_, _, _)
BitOr(x, y, n) ==
    IF n = 0 THEN 0
    ELSE (IF x % 2 = 1 \/ y % 2 = 1 THEN 1 ELSE 0) + 2 * BitOr(x \div 2, y \div 2, n - 1)

RECURSIVE BitAnd(_, _, _)
BitAnd(x, y, n) ==
    IF n = 0 THEN 0
    ELSE (IF x % 2 = 1 /\ y % 2 = 1 THEN 1 ELSE 0) + 2 * BitAnd(x \div 2, y \div 2, n - 1)

Or64(a, b) == [i \in 1..4 |-> BitOr(a[i], b[i], 16)]

And64(a, b) == [i \in 1..4 |-> BitAnd(a[i], b[i], 16)]

\* the number a word stands for, when it is below 2^31
ToInt(a) == a[1] + Limb * a[2]

---------------------------------------------------------------------------
(* toID and Decompose                                                      *)

OverTheTimeLimit == "over the time limit"

NoError == "no error"

\* 1<<BitLenTime as int64
TimeLimit == Shl64(U64(1), BitLenTime)

\* toID with the limit tested by > instead of >=
toID_StrictLimit(g) ==
    IF LtI64(TimeLimit, g.elapsedTime)
    THEN [id |-> U64(0), err |-> OverTheTimeLimit]
    ELSE [id |-> Or64(Or64(Or64(
                     Shl64(g.elapsedTime, BitLenMachineID + BitLenServiceID + BitLenSequence),
                     Shl64(U64(g.machineID), BitLenServiceID + BitLenSequence)),
                     Shl64(U64(g.serviceID), BitLenSequence)),
                     U64(g.sequence)),
          err |-> NoError]

\* toID with the time shifted one bit too far
toID_WideTime(g) ==
    IF ~LtI64(g.elapsedTime, TimeLimit)
    THEN [id |-> U64(0), err |-> OverTheTimeLimit]
    ELSE [id |-> Or64(Or64(Or64(
                     Shl64(g.elapsedTime, BitLenMachineID + BitLenServiceID + BitLenSequence + 1),
                     Shl64(U64(g.machineID), BitLenServiceID + BitLenSequence)),
                     Shl64(U64(g.serviceID), BitLenSequence)),
                     U64(g.sequence)),
          err |-> NoError]

\* toID with the machine ID shifted as far as the service ID
toID_MachineShift(g) ==
    IF ~LtI64(g.elapsedTime, TimeLimit)
    THEN [id |-> U64(0), err |-> OverTheTimeLimit]
    ELSE [id |-> Or64(Or64(Or64(
                     Shl64(g.elapsedTime, BitLenMachineID + BitLenServiceID + BitLenSequence),
                     Shl64(U64(g.machineID), BitLenSequence)),
                     Shl64(U64(g.serviceID), BitLenSequence)),
                     U64(g.sequence)),
          err |-> NoError]

\* toID, on the generator record g
toID(g) ==
    IF ~LtI64(g.elapsedTime, TimeLimit)
    THEN [id |-> U64(0), err |-> OverTheTimeLimit]
    ELSE [id |-> Or64(Or64(Or64(
                     Shl64(g.elapsedTime, BitLenMachineID + BitLenServiceID + BitLenSequence),
                     Shl64(U64(g.machineID), BitLenServiceID + BitLenSequence)),
                     Shl64(U64(g.serviceID), BitLenSequence)),
                     U64(g.sequence)),
          err |-> NoError]

\* Decompose with the machine ID mask one bit short
Decompose_ShortMask(id) ==
    LET maskMachineID == Shl64(U64(Pow2(BitLenMachineID - 1) - 1), BitLenServiceID + BitLenSequence)
        maskServiceID == Shl64(U64(Pow2(BitLenServiceID) - 1), BitLenSequence)
        maskSequence == U64(Pow2(BitLenSequence) - 1)
    IN  [ x \in {"id", "msb", "time", "machine-id", "service-id", "sequence"} |->
            CASE x = "id" -> id
              [] x = "msb" -> Shr64(id, 63)
              [] x = "time" -> Shr64(id, BitLenMachineID + BitLenServiceID + BitLenSequence)
              [] x = "machine-id" -> Shr64(And64(id, maskMachineID), BitLenServiceID + BitLenSequence)
              [] x = "service-id" -> Shr64(And64(id, maskServiceID), BitLenSequence)
              [] x = "sequence" -> And64(id, maskSequence) ]

\* Decompose: the map of the parts of id, keyed as in the source
Decompose(id) ==
    LET maskMachineID == Shl64(U64(Pow2(BitLenMachineID) - 1), BitLenServiceID + BitLenSequence)
        maskServiceID == Shl64(U64(Pow2(BitLenServiceID) - 1), BitLenSequence)
        maskSequence == U64(Pow2(BitLenSequence) - 1)
    IN  [ x \in {"id", "msb", "time", "machine-id", "service-id", "sequence"} |->
            CASE x = "id" -> id
              [] x = "msb" -> Shr64(id, 63)
              [] x = "time" -> Shr64(id, BitLenMachineID + BitLenServiceID + BitLenSequence)
              [] x = "machine-id" -> Shr64(And64(id, maskMachineID), BitLenServiceID + BitLenSequence)
              [] x = "service-id" -> Shr64(And64(id, maskServiceID), BitLenSequence)
              [] x = "sequence" -> And64(id, maskSequence) ]


---------------------------------------------------------------------------
(* time.Time: an instant is [tick, nsec], standing for the Unix time       *)
(* tick * dxyflakeTimeUnit + nsec nanoseconds, 0 <= nsec < dxyflakeTimeUnit *)

\* the zero time.Time (year 1), before every instant of the model
ZeroTime == [zero |-> TRUE]

HalfTick == dxyflakeTimeUnit \div 2

\* the comparison made in dxyflake time units: the nanoseconds within the tick are lost
After_WholeTicks(t, u) ==
    /\ t # ZeroTime
    /\ LtI64(u.tick, t.tick)

\* t.After(u)
After(t, u) ==
    /\ t # ZeroTime
    /\ \/ LtI64(u.tick, t.tick)
       \/ t.tick = u.tick /\ u.nsec < t.nsec

\* t.IsZero()
IsZero(t) == t = ZeroTime

\* toDxyflakeTime: UnixNano / dxyflakeTimeUnit
toDxyflakeTime(t) == t.tick

\* time.Date(2021, 10, 1, 0, 0, 0, 0, time.UTC): 1633046400 s after the Unix epoch
DefaultStartTime == [tick |-> MulSmall64(U64(1633046400), 100), nsec |-> 0]

\* currentElapsedTime(startTime), the wall clock reading now
currentElapsedTime(startTime, now) == Sub64(toDxyflakeTime(now), startTime)

---------------------------------------------------------------------------
(* NewDxyflake                                                             *)

\* A provider is Nil or [id, fails]: the uint16 and whether the error is non-nil.
\* A validator is Nil or [accepts]: the name of the set of IDs it returns true for.
Provided(p) == IF p = Nil THEN 0 ELSE p.id

Failed(p) == p # Nil /\ p.fails

Accepted(name) ==
    CASE name = "none" -> {}
      [] name = "5-bit" -> 0..(Pow2(BitLenMachineID) - 1)
      [] name = "non-zero" -> 1..(Limb - 1)

\* the validator's result taken without the negation
Rejects_NotNegated(v, id) == v # Nil /\ id \in Accepted(v.accepts)

Rejects(v, id) == v # Nil /\ id \notin Accepted(v.accepts)

\* the error of the ServiceID call dropped
ErrAfterProviders_MachineOnly(st) == Failed(st.MachineID)

\* the error variable after the two provider calls: the second call assigns it again
ErrAfterProviders(st) ==
    IF st.ServiceID # Nil THEN st.ServiceID.fails
    ELSE Failed(st.MachineID)

\* NewDxyflake(st) at wall-clock time now: [df, invoked]
NewDxyflake(st, now) ==
    IF After(st.StartTime, now) THEN [df |-> Nil, invoked |-> <<>>]
    ELSE
        LET startTime == IF IsZero(st.StartTime) THEN toDxyflakeTime(DefaultStartTime)
                         ELSE toDxyflakeTime(st.StartTime)
            machineID == Provided(st.MachineID)
            serviceID == Provided(st.ServiceID)
            err == ErrAfterProviders(st)
            callsP == (IF st.MachineID = Nil THEN <<>> ELSE <<[fn |-> "MachineID"]>>)
                      \o (IF st.ServiceID = Nil THEN <<>> ELSE <<[fn |-> "ServiceID"]>>)
            checkM == ~err /\ st.CheckMachineID # Nil
            badM == checkM /\ Rejects(st.CheckMachineID, machineID)
            checkS == ~err /\ ~badM /\ st.CheckServiceID # Nil
            badS == checkS /\ Rejects(st.CheckServiceID, serviceID)
            callsV == (IF checkM THEN <<[fn |-> "CheckMachineID", arg |-> machineID]>> ELSE <<>>)
                      \o (IF checkS THEN <<[fn |-> "CheckServiceID", arg |-> serviceID]>> ELSE <<>>)
        IN  [df |-> IF err \/ badM \/ badS THEN Nil
                    ELSE [startTime |-> startTime,
                          elapsedTime |-> U64(0),
                          machineID |-> machineID,
                          serviceID |-> serviceID,
                          sequence |-> Pow2(BitLenSequence) - 1],
             invoked |-> callsP \o callsV]

---------------------------------------------------------------------------
(* NextID                                                                  *)

Procs == 1..NumProcs

\* NextID following the clock whenever it differs from elapsedTime, backwards too
Advance_FollowClock(g, cur) ==
    LET maskSequence == Pow2(BitLenSequence) - 1
        sequence == BitAnd((g.sequence + 1) % Limb, maskSequence, 16)
    IN  IF g.elapsedTime # cur
        THEN [df |-> [g EXCEPT !.elapsedTime = cur, !.sequence = 0],
              overflow |-> FALSE, overtime |-> U64(0)]
        ELSE IF sequence = 0
        THEN [df |-> [g EXCEPT !.elapsedTime = Add64(g.elapsedTime, U64(1)), !.sequence = 0],
              overflow |-> TRUE,
              overtime |-> Sub64(Add64(g.elapsedTime, U64(1)), cur)]
        ELSE [df |-> [g EXCEPT !.sequence = sequence],
              overflow |-> FALSE, overtime |-> U64(0)]

\* Advance without sf.sequence = 0 when the clock has moved on
Advance_NoReset(g, cur) ==
    LET maskSequence == Pow2(BitLenSequence) - 1
        sequence == BitAnd((g.sequence + 1) % Limb, maskSequence, 16)
    IN  IF LtI64(g.elapsedTime, cur)
        THEN [df |-> [g EXCEPT !.elapsedTime = cur],
              overflow |-> FALSE, overtime |-> U64(0)]
        ELSE IF sequence = 0
        THEN [df |-> [g EXCEPT !.elapsedTime = Add64(g.elapsedTime, U64(1)), !.sequence = 0],
              overflow |-> TRUE,
              overtime |-> Sub64(Add64(g.elapsedTime, U64(1)), cur)]
        ELSE [df |-> [g EXCEPT !.sequence = sequence],
              overflow |-> FALSE, overtime |-> U64(0)]

\* Advance with overtime computed before elapsedTime++
Advance_OvertimeEarly(g, cur) ==
    LET maskSequence == Pow2(BitLenSequence) - 1
        sequence == BitAnd((g.sequence + 1) % Limb, maskSequence, 16)
    IN  IF LtI64(g.elapsedTime, cur)
        THEN [df |-> [g EXCEPT !.elapsedTime = cur, !.sequence = 0],
              overflow |-> FALSE, overtime |-> U64(0)]
        ELSE IF sequence = 0
        THEN [df |-> [g EXCEPT !.elapsedTime = Add64(g.elapsedTime, U64(1)), !.sequence = 0],
              overflow |-> TRUE,
              overtime |-> Sub64(g.elapsedTime, cur)]
        ELSE [df |-> [g EXCEPT !.sequence = sequence],
              overflow |-> FALSE, overtime |-> U64(0)]

\* Advance clearing the machine ID when the clock has moved on
Advance_ClearsMachineID(g, cur) ==
    LET maskSequence == Pow2(BitLenSequence) - 1
        sequence == BitAnd((g.sequence + 1) % Limb, maskSequence, 16)
    IN  IF LtI64(g.elapsedTime, cur)
        THEN [df |-> [g EXCEPT !.elapsedTime = cur, !.sequence = 0, !.machineID = 0],
              overflow |-> FALSE, overtime |-> U64(0)]
        ELSE IF sequence = 0
        THEN [df |-> [g EXCEPT !.elapsedTime = Add64(g.elapsedTime, U64(1)), !.sequence = 0],
              overflow |-> TRUE,
              overtime |-> Sub64(Add64(g.elapsedTime, U64(1)), cur)]
        ELSE [df |-> [g EXCEPT !.sequence = sequence],
              overflow |-> FALSE, overtime |-> U64(0)]

\* NextID lines 134-145 without the sleep: the generator after the update on
\* the clock reading cur, whether the sequence overflowed, and overtime
Advance(g, cur) ==
    LET maskSequence == Pow2(BitLenSequence) - 1
        sequence == BitAnd((g.sequence + 1) % Limb, maskSequence, 16)
    IN  IF LtI64(g.elapsedTime, cur)
        THEN [df |-> [g EXCEPT !.elapsedTime = cur, !.sequence = 0],
              overflow |-> FALSE, overtime |-> U64(0)]
        ELSE IF sequence = 0
        THEN [df |-> [g EXCEPT !.elapsedTime = Add64(g.elapsedTime, U64(1)), !.sequence = 0],
              overflow |-> TRUE,
              overtime |-> Sub64(Add64(g.elapsedTime, U64(1)), cur)]
        ELSE [df |-> [g EXCEPT !.sequence = sequence],
              overflow |-> FALSE, overtime |-> U64(0)]

\* sleepTime(overtime), the wall clock reading now: a time.Duration in nsec
sleepTime(ot, now) == ToInt(ot) * dxyflakeTimeUnit - now.nsec

\* the return without the deferred Unlock
Return_NoUnlock(p, g0, g, cur) ==
    LET r == toID(g)
    IN  /\ log' = Append(log, [id |-> r.id, err |-> r.err, current |-> cur,
                               stored |-> g0.elapsedTime, was |-> g0.sequence,
                               elapsedTime |-> g.elapsedTime, sequence |-> g.sequence])
        /\ pc' = [pc EXCEPT ![p] = "idle"]
        /\ mutex' = mutex
        /\ overtime' = U64(0)
        /\ sleepLeft' = 0

\* return sf.toID() with the deferred Unlock: goroutine p, which found the
\* generator as g0, read the clock as cur and updated the generator to g, returns
\* what toID gives for g
Return(p, g0, g, cur) ==
    LET r == toID(g)
    IN  /\ log' = Append(log, [id |-> r.id, err |-> r.err, current |-> cur,
                               stored |-> g0.elapsedTime, was |-> g0.sequence,
                               elapsedTime |-> g.elapsedTime, sequence |-> g.sequence])
        /\ pc' = [pc EXCEPT ![p] = "idle"]
        /\ mutex' = 0
        /\ overtime' = U64(0)
        /\ sleepLeft' = 0

\* goroutine p calls NextID and reaches sf.mutex.Lock()
Call(p) ==
    /\ df # Nil
    /\ pc[p] = "idle"
    /\ Len(log) + Cardinality({q \in Procs : pc[q] # "idle"}) < MaxCalls
    /\ pc' = [pc EXCEPT ![p] = "waiting"]
    /\ UNCHANGED <<clock, settings, df, invoked, mutex, overtime, sleepLeft, log, regressed, codec>>

\* NextID without sf.mutex.Lock(): p does not wait for the mutex
Enter_NoLock(p) ==
    /\ pc[p] = "waiting"
    /\ LET cur == currentElapsedTime(df.startTime, clock)
           a == Advance(df, cur)
       IN  /\ df' = a.df
           /\ IF a.overflow
              THEN /\ mutex' = p
                   /\ pc' = [pc EXCEPT ![p] = "overflow"]
                   /\ overtime' = a.overtime
                   /\ UNCHANGED <<sleepLeft, log>>
              ELSE Return(p, df, a.df, cur)
    /\ UNCHANGED <<clock, settings, invoked, regressed, codec>>

\* p gets the mutex, reads the clock and updates the state; on overflow it goes
\* on to sleep, otherwise it returns
Enter(p) ==
    /\ pc[p] = "waiting"
    /\ mutex = 0
    /\ LET cur == currentElapsedTime(df.startTime, clock)
           a == Advance(df, cur)
       IN  /\ df' = a.df
           /\ IF a.overflow
              THEN /\ mutex' = p
                   /\ pc' = [pc EXCEPT ![p] = "overflow"]
                   /\ overtime' = a.overtime
                   /\ UNCHANGED <<sleepLeft, log>>
              ELSE Return(p, df, a.df, cur)
    /\ UNCHANGED <<clock, settings, invoked, regressed, codec>>

\* p evaluates sleepTime(overtime), which reads the clock again, and starts time.Sleep
Sleep(p) ==
    /\ pc[p] = "overflow"
    /\ LET d == sleepTime(overtime, clock)
       IN  sleepLeft' = IF d > 0 THEN d ELSE 0
    /\ pc' = [pc EXCEPT ![p] = "sleeping"]
    /\ UNCHANGED <<clock, settings, df, invoked, mutex, overtime, log, regressed, codec>>

\* time.Sleep is over: p returns; it had found the generator one tick earlier,
\* at the last sequence number, and had read the clock as elapsedTime - overtime
Wake(p) ==
    /\ pc[p] = "sleeping"
    /\ sleepLeft = 0
    /\ Return(p, [df EXCEPT !.elapsedTime = Sub64(df.elapsedTime, U64(1)),
                            !.sequence = Pow2(BitLenSequence) - 1],
              df, Sub64(df.elapsedTime, overtime))
    /\ UNCHANGED <<clock, settings, df, invoked, regressed, codec>>

---------------------------------------------------------------------------
(* the wall clock                                                          *)

\* the instant the model starts at: the default start time
Clock0 == DefaultStartTime

\* the ticks the wall clock takes: around Clock0, and around the time limit after it
LowTicks == {Add64(Sub64(Clock0.tick, U64(1)), U64(k)) : k \in 0..MaxTick}

FarTicks == {Sub64(Add64(Clock0.tick, TimeLimit), U64(1)), Add64(Clock0.tick, TimeLimit)}

Instants == [tick : LowTicks \cup FarTicks, nsec : {0, HalfTick}]

\* half a tick passes, on the wall clock and for the sleeper
Tick ==
    LET next == IF clock.nsec = 0 THEN [clock EXCEPT !.nsec = HalfTick]
                ELSE [tick |-> Add64(clock.tick, U64(1)), nsec |-> 0]
    IN  /\ next \in Instants
        /\ clock' = next
        /\ sleepLeft' = IF sleepLeft > HalfTick THEN sleepLeft - HalfTick ELSE 0
        /\ UNCHANGED <<settings, df, invoked, pc, mutex, overtime, log, regressed, codec>>

\* the wall clock is set back
ClockBack ==
    /\ \E t \in Instants :
          /\ After(clock, t)
          /\ clock' = t
    /\ regressed' = TRUE
    /\ UNCHANGED <<settings, df, invoked, pc, mutex, overtime, sleepLeft, log, codec>>

\* the wall clock is set forward, to just before the time limit
ClockForward ==
    /\ clock.tick \in LowTicks
    /\ clock' = [tick |-> Sub64(Add64(Clock0.tick, TimeLimit), U64(1)), nsec |-> 0]
    /\ UNCHANGED <<settings, df, invoked, pc, mutex, overtime, sleepLeft, log, regressed, codec>>

---------------------------------------------------------------------------
(* Spec: one generator, built as in the tests, used by NumProcs goroutines *)

NoCodec == [phase |-> "none"]

Returns(id) == [id |-> id, fails |-> FALSE]

\* the Settings of the generators: StartTime now and no validators, as in the
\* tests; no providers, the IDs of the tests, the largest 5-bit IDs, a
\* machine ID one beyond them, and the largest uint16 IDs
MainSettings ==
    {[StartTime |-> Clock0, MachineID |-> ids[1], ServiceID |-> ids[2],
      CheckMachineID |-> Nil, CheckServiceID |-> Nil] :
        ids \in {<<Nil, Nil>>, <<Returns(1), Returns(2)>>,
                 <<Returns(31), Returns(30)>>, <<Returns(32), Nil>>,
                 <<Returns(65535), Returns(65535)>>}}

Init ==
    /\ clock = Clock0
    /\ settings \in MainSettings
    /\ df = NewDxyflake(settings, clock).df
    /\ invoked = NewDxyflake(settings, clock).invoked
    /\ pc = [p \in Procs |-> "idle"]
    /\ mutex = 0
    /\ overtime = U64(0)
    /\ sleepLeft = 0
    /\ log = <<>>
    /\ regressed = FALSE
    /\ codec = NoCodec

Next ==
    \/ \E p \in Procs : Call(p)
    \/ \E p \in Procs : Enter(p)
    \/ \E p \in Procs : Sleep(p)
    \/ \E p \in Procs : Wake(p)
    \/ Tick
    \/ ClockBack
    \/ ClockForward

Spec == Init /\ [][Next]_vars

---------------------------------------------------------------------------
(* SpecWrap: NextID on a generator as made, or in use and close to the     *)
(* last sequence number of its tick                                        *)

\* the generators in use: the IDs of the tests, and a machine ID beyond 5 bits
WrapSettings ==
    {st \in MainSettings :
        <<st.MachineID, st.ServiceID>> \in {<<Returns(1), Returns(2)>>, <<Returns(32), Nil>>}}

\* the ticks elapsed since the start time when the model starts
WrapTicks == {0, 1, 2}

\* the generator NewDxyflake made at Clock0: as made, when no tick has elapsed,
\* and otherwise after the NextID calls that returned sequence numbers 0..4094
\* within tick t
InUse(st, t) ==
    IF t = 0
    THEN NewDxyflake(st, Clock0).df
    ELSE [NewDxyflake(st, Clock0).df EXCEPT !.elapsedTime = U64(t),
                                            !.sequence = Pow2(BitLenSequence) - 2]

\* the clock is in the tick of the generator; the log starts empty: it holds
\* what the calls from here on return
InitWrap ==
    /\ settings \in WrapSettings
    /\ \E t \in WrapTicks :
           /\ clock = [Clock0 EXCEPT !.tick = Add64(Clock0.tick, U64(t))]
           /\ df = InUse(settings, t)
    /\ invoked = NewDxyflake(settings, Clock0).invoked
    /\ pc = [p \in Procs |-> "idle"]
    /\ mutex = 0
    /\ overtime = U64(0)
    /\ sleepLeft = 0
    /\ log = <<>>
    /\ regressed = FALSE
    /\ codec = NoCodec

SpecWrap == InitWrap /\ [][Next]_vars

---------------------------------------------------------------------------
(* SpecLive: SpecWrap with a wall clock that keeps advancing, goroutines   *)
(* that are scheduled, and a mutex that is granted fairly                  *)

\* half a tick passes; a goroutine that has computed overtime (line 142) calls
\* time.Sleep (line 143) within the half tick, so that the sleep ends within
\* the instants of the model
LiveTick ==
    /\ \A p \in Procs : pc[p] # "overflow"
    /\ Tick

NextLive ==
    \/ \E p \in Procs : Call(p)
    \/ \E p \in Procs : Enter(p)
    \/ \E p \in Procs : Sleep(p)
    \/ \E p \in Procs : Wake(p)
    \/ LiveTick
    \/ ClockForward

\* sf.mutex.Lock() returns in goroutine p: the steps of Enter(p), which is
\* enabled whenever p waits and the mutex is free
Granted(p) ==
    /\ pc[p] = "waiting"
    /\ mutex = 0
    /\ pc' \in {[pc EXCEPT ![p] = "overflow"], [pc EXCEPT ![p] = "idle"]}

\* goroutine p calls time.Sleep: the steps of Sleep(p)
Slept(p) ==
    /\ pc[p] = "overflow"
    /\ pc' = [pc EXCEPT ![p] = "sleeping"]

\* time.Sleep returns in goroutine p: the steps of Wake(p)
Woken(p) ==
    /\ pc[p] = "sleeping"
    /\ sleepLeft = 0
    /\ pc' = [pc EXCEPT ![p] = "idle"]

\* time passes; a goroutine that can run does; sync.Mutex hands the mutex to
\* a goroutine that keeps waiting for it (its starvation mode)
Fairness ==
    /\ WF_vars(LiveTick)
    /\ \A p \in Procs : WF_pc(Slept(p)) /\ WF_pc(Woken(p)) /\ SF_pc(Granted(p))

SpecLive == InitWrap /\ [][NextLive]_vars /\ Fairness

---------------------------------------------------------------------------
(* SpecPair: two generators with different (machine ID, service ID) pairs, *)
(* each used by one goroutine; settings and df hold one entry for each     *)

Generators == {1, 2}

\* the (machine ID, service ID) pairs of the two generators: both in 0..31,
\* and differing in the machine ID, in the service ID or in both
PairIDs ==
    {<<(<<0, 0>>), (<<0, 1>>)>>, <<(<<0, 1>>), (<<1, 0>>)>>,
     <<(<<31, 30>>), (<<30, 31>>)>>, <<(<<31, 31>>), (<<15, 31>>)>>}

\* the epochs of the two generators: the same, or one tick apart
PairEpochs ==
    {<<Clock0, Clock0>>, <<Clock0, [Clock0 EXCEPT !.tick = Sub64(Clock0.tick, U64(1))]>>}

PairSettings ==
    {[k \in Generators |->
        [StartTime |-> ep[k], MachineID |-> Returns(ids[k][1]), ServiceID |-> Returns(ids[k][2]),
         CheckMachineID |-> Nil, CheckServiceID |-> Nil]] : ids \in PairIDs, ep \in PairEpochs}

\* the instant d nanoseconds after t
AddNanos(t, d) ==
    [tick |-> Add64(t.tick, U64((t.nsec + d) \div dxyflakeTimeUnit)),
     nsec |-> (t.nsec + d) % dxyflakeTimeUnit]

\* a whole NextID call on generator k, by its one goroutine: on overflow the
\* call returns when time.Sleep is over, sleepTime(overtime) later
NextIDOn(k) ==
    LET cur == currentElapsedTime(df[k].startTime, clock)
        a == Advance(df[k], cur)
        d == sleepTime(a.overtime, clock)
        r == toID(a.df)
    IN  /\ Len(log) < MaxCalls
        /\ df' = [df EXCEPT ![k] = a.df]
        /\ clock' = IF a.overflow /\ d > 0 THEN AddNanos(clock, d) ELSE clock
        /\ clock' \in Instants
        /\ log' = Append(log, [gen |-> k, id |-> r.id, err |-> r.err,
                               elapsedTime |-> a.df.elapsedTime, sequence |-> a.df.sequence])
        /\ UNCHANGED <<settings, invoked, pc, mutex, overtime, sleepLeft, regressed, codec>>

InitPair ==
    /\ clock = Clock0
    /\ settings \in PairSettings
    /\ df = [k \in Generators |-> NewDxyflake(settings[k], clock).df]
    /\ invoked = <<>>
    /\ pc = [p \in Procs |-> "idle"]
    /\ mutex = 0
    /\ overtime = U64(0)
    /\ sleepLeft = 0
    /\ log = <<>>
    /\ regressed = FALSE
    /\ codec = NoCodec

NextPair ==
    \/ \E k \in Generators : NextIDOn(k)
    \/ Tick
    \/ ClockBack

SpecPair == InitPair /\ [][NextPair]_vars

---------------------------------------------------------------------------
(* SpecNew: NewDxyflake on every kind of Settings, at any time             *)

\* no provider, providers that return an ID, and one that fails (as in the tests)
Providers == {Nil, Returns(0), Returns(31), Returns(32), [id |-> 0, fails |-> TRUE]}

\* a validator that always rejects (as in the tests), one that accepts the
\* 5-bit IDs, one that accepts the non-zero IDs
Validators == {Nil, [accepts |-> "none"], [accepts |-> "5-bit"], [accepts |-> "non-zero"]}

StartTimes == {ZeroTime} \cup [tick : LowTicks, nsec : {0, HalfTick}]

AllSettings ==
    [StartTime : StartTimes, MachineID : Providers, ServiceID : Providers,
     CheckMachineID : Validators, CheckServiceID : Validators]

\* NewDxyflake(st) is called, once, at the time the wall clock shows
Construct(st) ==
    /\ settings = Nil
    /\ settings' = st
    /\ df' = NewDxyflake(st, clock).df
    /\ invoked' = NewDxyflake(st, clock).invoked
    /\ UNCHANGED <<clock, pc, mutex, overtime, sleepLeft, log, regressed, codec>>

InitNew ==
    /\ clock = Clock0
    /\ settings = Nil
    /\ df = Nil
    /\ invoked = <<>>
    /\ pc = [p \in Procs |-> "idle"]
    /\ mutex = 0
    /\ overtime = U64(0)
    /\ sleepLeft = 0
    /\ log = <<>>
    /\ regressed = FALSE
    /\ codec = NoCodec

NextNew ==
    \/ \E st \in AllSettings : Construct(st)
    \/ settings = Nil /\ Tick
    \/ settings = Nil /\ ClockBack

SpecNew == InitNew /\ [][NextNew]_vars

---------------------------------------------------------------------------
(* SpecCodec: toID on fields in range, and Decompose of what it gives      *)

MaxTime == Sub64(TimeLimit, U64(1))

CodecTimes == {U64(0), U64(1), U64(Pow2(BitLenMachineID)), U64(Pow2(22) - 1),
               Shl64(U64(1), BitLenTime - 1), Sub64(MaxTime, U64(1)), MaxTime}

CodecIDs == {0, 1, 2, 16, 30, 31}

CodecSequences == {0, 1, 2048, 4094, 4095}

Encode ==
    /\ codec.phase = "fields"
    /\ codec' = [codec EXCEPT !.phase = "encoded", !.result = toID(codec.fields)]
    /\ UNCHANGED <<clock, settings, df, invoked, pc, mutex, overtime, sleepLeft, log, regressed>>

Decode ==
    /\ codec.phase = "encoded"
    /\ codec' = [codec EXCEPT !.phase = "decoded", !.parts = Decompose(codec.result.id)]
    /\ UNCHANGED <<clock, settings, df, invoked, pc, mutex, overtime, sleepLeft, log, regressed>>

InitCodec ==
    /\ clock = Clock0
    /\ settings = Nil
    /\ df = Nil
    /\ invoked = <<>>
    /\ pc = [p \in Procs |-> "idle"]
    /\ mutex = 0
    /\ overtime = U64(0)
    /\ sleepLeft = 0
    /\ log = <<>>
    /\ regressed = FALSE
    /\ \E t \in CodecTimes, m \in CodecIDs, s \in CodecIDs, q \in CodecSequences :
          codec = [phase |-> "fields",
                   fields |-> [elapsedTime |-> t, machineID |-> m, serviceID |-> s, sequence |-> q],
                   result |-> Nil, parts |-> Nil]

NextCodec == Encode \/ Decode

SpecCodec == InitCodec /\ [][NextCodec]_vars

---------------------------------------------------------------------------
(* SpecFrame: NextID on a generator as made or in use, and Decompose of    *)
(* what NextID returned last                                               *)

\* Decompose(id) is called on the identifier NextID returned last (0 when it
\* returned the error)
DecomposeLast ==
    /\ Len(log) >= 1
    /\ codec' = [phase |-> "decoded", fields |-> Nil,
                 result |-> [id |-> log[Len(log)].id, err |-> log[Len(log)].err],
                 parts |-> Decompose(log[Len(log)].id)]
    /\ codec' # codec
    /\ UNCHANGED <<clock, settings, df, invoked, pc, mutex, overtime, sleepLeft, log, regressed>>

NextFrame ==
    \/ \E p \in Procs : Call(p)
    \/ \E p \in Procs : Enter(p)
    \/ \E p \in Procs : Sleep(p)
    \/ \E p \in Procs : Wake(p)
    \/ Tick
    \/ ClockForward
    \/ DecomposeLast

SpecFrame == InitWrap /\ [][NextFrame]_vars

---------------------------------------------------------------------------
(* Properties of NextID (under Spec)                                       *)

\* the NextID calls that returned an identifier and no error
Issued == {i \in 1..Len(log) : log[i].err = NoError}

\* the IDs NewDxyflake obtained: what the provider returned, 0 without a provider
ObtainedMachineID == IF settings.MachineID = Nil THEN 0 ELSE settings.MachineID.id

ObtainedServiceID == IF settings.ServiceID = Nil THEN 0 ELSE settings.ServiceID.id

\* both IDs of the generator fit their 5 bits
IDsInRange ==
    /\ ObtainedMachineID < Pow2(BitLenMachineID)
    /\ ObtainedServiceID < Pow2(BitLenServiceID)

\* C1: all identifiers that the NextID calls of the goroutines returned without
\* error are pairwise distinct.
C1_Unique ==
    \A i \in Issued : \A j \in Issued : i # j => log[i].id # log[j].id

\* C2: as long as the wall clock has not moved backwards, each identifier
\* returned is strictly greater, as uint64, than every identifier returned before.
C2_Monotone ==
    ~regressed => \A i \in Issued : \A j \in Issued : i < j => LtU64(log[i].id, log[j].id)

\* With machine and service IDs of 5 bits the identifiers are distinct and
\* increasing, whatever the clock does.
IncreasingInRange ==
    IDsInRange => \A i \in Issued : \A j \in Issued : i < j => LtU64(log[i].id, log[j].id)

\* C7: NextID returns the error "over the time limit" and identifier 0 exactly
\* when elapsedTime after the call's update is at least 2^41, and otherwise an
\* identifier and no error.
C7_ErrorIffOverLimit ==
    \A i \in 1..Len(log) :
        IF LtI64(log[i].elapsedTime, Shl64(U64(1), 41))
        THEN log[i].err = NoError
        ELSE log[i].err = OverTheTimeLimit /\ log[i].id = U64(0)

\* a call returned the last identifier before the limit, and a later one the error
C7_Witness ==
    \E i \in 1..Len(log) : \E j \in 1..Len(log) :
        /\ i < j
        /\ log[i].err = NoError
        /\ log[i].elapsedTime = Sub64(Shl64(U64(1), 41), U64(1))
        /\ log[j].err = OverTheTimeLimit
        /\ log[j].elapsedTime = Shl64(U64(1), 41)

\* C8: once a NextID call has returned "over the time limit", every later call
\* returns that error and no identifier, whatever the clock reads.
C8_ErrorIsPermanent ==
    \A i \in 1..Len(log) : \A j \in 1..Len(log) :
        (i < j /\ log[i].err = OverTheTimeLimit)
            => (log[j].err = OverTheTimeLimit /\ log[j].id = U64(0))

\* a call failed, the clock was set back to before the start time, and the next call failed
C8_Witness ==
    \E i \in 1..Len(log) : \E j \in 1..Len(log) :
        /\ i < j
        /\ log[i].err = OverTheTimeLimit
        /\ regressed
        /\ IsNeg64(log[j].current)
        /\ log[j].err = OverTheTimeLimit

\* C10: Decompose of every identifier NextID returns gives the machine ID and the
\* service ID NewDxyflake obtained, for every uint16 a provider may return.
C10_IDsRecovered ==
    \A i \in Issued :
        /\ Decompose(log[i].id)["machine-id"] = U64(ObtainedMachineID)
        /\ Decompose(log[i].id)["service-id"] = U64(ObtainedServiceID)

\* With machine and service IDs of 5 bits Decompose gives them back.
IDsRecoveredInRange == IDsInRange => C10_IDsRecovered

---------------------------------------------------------------------------
(* Properties of NewDxyflake (under SpecNew)                               *)

Constructed == settings # Nil

\* C3: when the MachineID provider returns an error, NewDxyflake returns nil.
C3_MachineIDErrorGivesNil ==
    (Constructed /\ settings.MachineID # Nil /\ settings.MachineID.fails) => df = Nil

\* C4: when the ServiceID provider returns an error, NewDxyflake returns nil,
\* whatever the MachineID provider returns and whatever validators are set.
C4_ServiceIDErrorGivesNil ==
    (Constructed /\ settings.ServiceID # Nil /\ settings.ServiceID.fails) => df = Nil

\* the ServiceID provider failed, after a MachineID provider that did not, with
\* a start time in the past and validators that accept the IDs
C4_Witness ==
    /\ Constructed
    /\ settings.ServiceID # Nil /\ settings.ServiceID.fails
    /\ settings.MachineID # Nil /\ ~settings.MachineID.fails
    /\ ~After(settings.StartTime, clock)
    /\ settings.CheckMachineID = [accepts |-> "5-bit"]
    /\ settings.CheckServiceID = [accepts |-> "5-bit"]
    /\ ObtainedMachineID = 31
    /\ df = Nil

ValidatorRejects(v, id) ==
    /\ v # Nil
    /\ \/ v.accepts = "none"
       \/ v.accepts = "5-bit" /\ id > 31
       \/ v.accepts = "non-zero" /\ id = 0

\* C5: NewDxyflake returns nil if a validator that is set returns false for the
\* ID obtained, which is 0 when the provider is nil; a validator is only ever
\* applied to the ID obtained; and nil validators reject nothing: with a start
\* time not ahead and no failing provider the generator is created.
C5_ValidatorRejectionGivesNil ==
    Constructed =>
        /\ (\/ ValidatorRejects(settings.CheckMachineID, ObtainedMachineID)
            \/ ValidatorRejects(settings.CheckServiceID, ObtainedServiceID)) => df = Nil
        /\ \A i \in 1..Len(invoked) :
              /\ invoked[i].fn = "CheckMachineID" => invoked[i].arg = ObtainedMachineID
              /\ invoked[i].fn = "CheckServiceID" => invoked[i].arg = ObtainedServiceID
        /\ (/\ settings.CheckMachineID = Nil
            /\ settings.CheckServiceID = Nil
            /\ ~After(settings.StartTime, clock)
            /\ ~(settings.MachineID # Nil /\ settings.MachineID.fails)
            /\ ~(settings.ServiceID # Nil /\ settings.ServiceID.fails)) => df # Nil

\* without a ServiceID provider, a validator that rejects 0 was applied to the
\* default service ID, after the machine ID passed its validator
C5_Witness ==
    /\ Constructed
    /\ settings.MachineID = Returns(31)
    /\ settings.CheckMachineID = [accepts |-> "5-bit"]
    /\ settings.ServiceID = Nil
    /\ settings.CheckServiceID = [accepts |-> "non-zero"]
    /\ invoked = <<[fn |-> "MachineID"], [fn |-> "CheckMachineID", arg |-> 31],
                   [fn |-> "CheckServiceID", arg |-> 0]>>
    /\ df = Nil

\* C6: NewDxyflake returns nil, and invokes no provider and no validator, when
\* StartTime is strictly after the time read; a StartTime equal to or before it
\* is not rejected: with providers that succeed and validators that accept, the
\* generator is created.
C6_FutureStartTimeGivesNil ==
    Constructed =>
        /\ (/\ settings.StartTime # ZeroTime
            /\ \/ LtI64(clock.tick, settings.StartTime.tick)
               \/ settings.StartTime.tick = clock.tick /\ settings.StartTime.nsec > clock.nsec)
           => (df = Nil /\ invoked = <<>>)
        /\ (/\ settings.StartTime # ZeroTime
            /\ \/ LtI64(settings.StartTime.tick, clock.tick)
               \/ settings.StartTime.tick = clock.tick /\ settings.StartTime.nsec <= clock.nsec
            /\ ~(settings.MachineID # Nil /\ settings.MachineID.fails)
            /\ ~(settings.ServiceID # Nil /\ settings.ServiceID.fails)
            /\ ~ValidatorRejects(settings.CheckMachineID, ObtainedMachineID)
            /\ ~ValidatorRejects(settings.CheckServiceID, ObtainedServiceID))
           => df # Nil

\* a StartTime later in the tick the clock is in, with providers and validators set
C6_Witness ==
    /\ Constructed
    /\ settings.StartTime # ZeroTime
    /\ settings.StartTime.tick = clock.tick
    /\ settings.StartTime.nsec > clock.nsec
    /\ settings.MachineID = Returns(31)
    /\ settings.ServiceID = Returns(31)
    /\ settings.CheckMachineID = [accepts |-> "5-bit"]
    /\ settings.CheckServiceID = [accepts |-> "5-bit"]
    /\ df = Nil
    /\ invoked = <<>>

---------------------------------------------------------------------------
(* Properties of toID and Decompose (under SpecCodec)                      *)

\* C9: for a tick below 2^41, machine and service IDs in 0..31 and a sequence in
\* 0..4095, Decompose of the identifier toID builds gives back these four values
\* under "time", "machine-id", "service-id" and "sequence", and the identifier
\* under "id".
C9_RoundTrip ==
    codec.phase = "decoded" =>
        /\ codec.result.err = NoError
        /\ codec.parts["time"] = codec.fields.elapsedTime
        /\ codec.parts["machine-id"] = U64(codec.fields.machineID)
        /\ codec.parts["service-id"] = U64(codec.fields.serviceID)
        /\ codec.parts["sequence"] = U64(codec.fields.sequence)
        /\ codec.parts["id"] = codec.result.id

\* the largest fields were encoded and decoded: the identifier is 2^63 - 1
C9_Witness ==
    /\ codec.phase = "decoded"
    /\ codec.fields = [elapsedTime |-> <<65535, 65535, 511, 0>>, machineID |-> 31,
                       serviceID |-> 31, sequence |-> 4095]
    /\ codec.result.id = <<65535, 65535, 65535, 32767>>

---------------------------------------------------------------------------
(* Properties of the identifiers' fields (under Spec)                      *)

\* C11: Decompose gives msb 0 for every identifier NextID returns, for any
\* machine ID and service ID.
C11_MsbZero ==
    \A i \in Issued : Decompose(log[i].id)["msb"] = U64(0)

\* the generator with the largest uint16 IDs issued an identifier in the last
\* tick before the limit, and its msb is 0
C11_Witness ==
    /\ ObtainedMachineID = 65535
    /\ ObtainedServiceID = 65535
    /\ \E i \in Issued :
           /\ log[i].elapsedTime = Sub64(TimeLimit, U64(1))
           /\ Decompose(log[i].id)["msb"] = U64(0)

\* C12: provided the wall clock never moves backwards, the time field of an
\* identifier is at most the ticks elapsed since the start time when NextID
\* returns it (and so, the clock not going back, at every later moment).
C12_NotAheadOfClock ==
    ~regressed =>
        \A i \in Issued :
            ~LtI64(currentElapsedTime(df.startTime, clock), Decompose(log[i].id)["time"])

\* With machine and service IDs of 5 bits the time field is never ahead of a
\* clock that does not go back.
NotAheadInRange == IDsInRange => C12_NotAheadOfClock

\* the sequence number wrapped in the call that log[i] records
Wrapped(i) == log[i].was = Pow2(BitLenSequence) - 1

\* C14: a NextID call that reads a clock not after the stored elapsedTime, and
\* leaves elapsedTime below 2^41, returns without error an identifier whose time
\* field is the stored elapsedTime, or one more when the sequence wrapped.
C14_KeyedToStoredTime ==
    \A i \in 1..Len(log) :
        (~LtI64(log[i].stored, log[i].current) /\ LtI64(log[i].elapsedTime, TimeLimit))
            => /\ log[i].err = NoError
               /\ Decompose(log[i].id)["time"] =
                      IF Wrapped(i) THEN Add64(log[i].stored, U64(1)) ELSE log[i].stored

\* With machine and service IDs of 5 bits the identifier is keyed to the stored
\* elapsedTime.
KeyedToStoredTimeInRange == IDsInRange => C14_KeyedToStoredTime

\* the clock was set back under the stored elapsedTime and the identifier kept
\* the stored elapsedTime
KeyedToStoredTimeCase ==
    \E i \in Issued :
        /\ LtI64(log[i].current, log[i].stored)
        /\ ~Wrapped(i)
        /\ Decompose(log[i].id)["time"] = log[i].stored

\* C15: the first identifier a generator returns has sequence 0, whatever the
\* clock reads at the first call; at reading 0 the sentinel 4095 wraps and
\* NextID moves to tick 1.
C15_FirstSequenceZero ==
    (Len(log) >= 1 /\ log[1].err = NoError)
        => /\ Decompose(log[1].id)["sequence"] = U64(0)
           /\ log[1].sequence = 0
           /\ log[1].current = U64(0) => log[1].elapsedTime = U64(1)

\* the first call read 0 ticks, and the identifier it returned has sequence 0
\* at tick 1
C15_Witness ==
    /\ Len(log) >= 1
    /\ log[1].err = NoError
    /\ log[1].current = U64(0)
    /\ log[1].was = Pow2(BitLenSequence) - 1
    /\ log[1].elapsedTime = U64(1)
    /\ Decompose(log[1].id)["sequence"] = U64(0)

---------------------------------------------------------------------------
(* Properties of the sequence wraparound (under SpecWrap)                  *)

\* C16: every NextID call leaves the sequence in 0..4095 and either keeps
\* elapsedTime and adds 1 to the sequence, or raises elapsedTime and sets the
\* sequence to 0; a call finds the generator as the call before left it.
C16_TimeAndSequenceStep ==
    \A i \in 1..Len(log) :
        /\ log[i].sequence \in 0..(Pow2(BitLenSequence) - 1)
        /\ \/ log[i].elapsedTime = log[i].stored /\ log[i].sequence = log[i].was + 1
           \/ LtI64(log[i].stored, log[i].elapsedTime) /\ log[i].sequence = 0
        /\ i > 1 => /\ log[i].stored = log[i - 1].elapsedTime
                    /\ log[i].was = log[i - 1].sequence

\* a call reached 4095 within the tick, the next wrapped to 0 one tick later
\* though the clock had been set back, and a third added 1
C16_Witness ==
    /\ Len(log) = 3
    /\ log[1].elapsedTime = log[1].stored /\ log[1].sequence = Pow2(BitLenSequence) - 1
    /\ LtI64(log[2].current, log[2].stored)
    /\ log[2].elapsedTime = Add64(log[2].stored, U64(1)) /\ log[2].sequence = 0
    /\ log[3].elapsedTime = log[3].stored /\ log[3].sequence = 1

\* the call returning in this step is the one after the identifier of tick t
\* and sequence 4095, and it had read the clock at tick t
AfterLastOfTick(t) ==
    /\ Len(log) >= 1
    /\ Len(log') = Len(log) + 1
    /\ log[Len(log)].err = NoError
    /\ Decompose(log[Len(log)].id)["time"] = t
    /\ Decompose(log[Len(log)].id)["sequence"] = U64(Pow2(BitLenSequence) - 1)
    /\ log'[Len(log')].current = t

\* the call returning in this step left elapsedTime t + 1 and sequence 0, and
\* returns, with the clock at tick t + 1 or later, an identifier of tick t + 1
ReturnsInNextTick(t) ==
    /\ log'[Len(log')].elapsedTime = Add64(t, U64(1))
    /\ log'[Len(log')].sequence = 0
    /\ log'[Len(log')].err = NoError
    /\ Decompose(log'[Len(log')].id)["time"] = Add64(t, U64(1))
    /\ ~LtI64(currentElapsedTime(df.startTime, clock), Add64(t, U64(1)))

\* the time field of the identifier returned last
LastTick == Decompose(log[Len(log)].id)["time"]

\* C17: after the identifier with tick T and sequence 4095, a NextID call that
\* reads the clock still at tick T sets elapsedTime to T+1 and the sequence to
\* 0, returns only when the wall clock has reached tick T+1, and returns an
\* identifier of tick T+1.
C17_WrapWaitsForNextTick ==
    [][AfterLastOfTick(LastTick) => ReturnsInNextTick(LastTick)]_vars

\* With machine and service IDs of 5 bits, and a clock that is not set back,
\* the call after the last identifier of a tick returns in the next tick.
WrapWaitsInRange ==
    [][(IDsInRange /\ ~regressed' /\ AfterLastOfTick(LastTick))
          => ReturnsInNextTick(LastTick)]_vars

\* the identifier of tick T and sequence 4095 was followed by one of tick T+1
\* and sequence 0, from a call that read the clock at T
WrapWaitsCase ==
    /\ IDsInRange
    /\ ~regressed
    /\ \E i \in Issued :
           /\ i > 1
           /\ Decompose(log[i - 1].id)["sequence"] = U64(Pow2(BitLenSequence) - 1)
           /\ log[i].current = Decompose(log[i - 1].id)["time"]
           /\ Decompose(log[i].id)["time"] = Add64(log[i].current, U64(1))

\* a NextID call is on its way to time.Sleep, or in it
Sleeps(p) == pc[p] \in {"overflow", "sleeping"}

\* C20: whenever NextID sleeps on sequence wraparound, the wrap of the sentinel
\* 4095 in the first call included, the overtime it computed is exactly 1.
C20_OvertimeIsOne ==
    \A p \in Procs : Sleeps(p) => overtime = U64(1)

\* C20, amended: provided the wall clock has not been set back, the overtime
\* NextID computed is exactly 1 whenever it sleeps on sequence wraparound.
C20_OvertimeIsOneForward ==
    ~regressed => C20_OvertimeIsOne

\* NextID sleeps after 4095 on a generator in use, the clock never set back,
\* and computed overtime 1
C20_Witness ==
    /\ ~regressed
    /\ df.elapsedTime = U64(3)
    /\ \E p \in Procs : pc[p] = "sleeping" /\ mutex = p /\ sleepLeft > 0
    /\ Len(log) >= 1
    /\ log[Len(log)].sequence = Pow2(BitLenSequence) - 1
    /\ overtime = U64(1)

---------------------------------------------------------------------------
(* Properties of the mutex (under Spec)                                    *)

\* C18: at most one NextID call is between reading the clock and returning;
\* a call sleeping on wraparound holds the mutex, and until it has returned no
\* other call reads or writes elapsedTime or sequence, or returns.
C18_MutualExclusion ==
    /\ [](/\ Cardinality({p \in Procs : Sleeps(p)}) <= 1
          /\ \A p \in Procs : Sleeps(p) => mutex = p)
    /\ [][\A p \in Procs :
              Sleeps(p) => /\ df' = df
                           /\ \A q \in Procs \ {p} : pc'[q] = pc[q] \/ pc'[q] = "waiting"
                           /\ log' # log => pc'[p] = "idle"]_vars

\* a call sleeps on wraparound, holding the mutex, while another waits for it
C18_Witness ==
    \E p \in Procs : \E q \in Procs :
        /\ pc[p] = "sleeping" /\ mutex = p /\ sleepLeft > 0
        /\ pc[q] = "waiting"

---------------------------------------------------------------------------
(* Properties of two generators (under SpecPair)                           *)

\* C13: two generators whose (machine ID, service ID) pairs differ, both IDs
\* in 0..31, never return the same identifier, whatever their start times,
\* the clock and the order of their calls.
C13_DisjointAcrossGenerators ==
    \A i \in 1..Len(log) : \A j \in 1..Len(log) :
        (log[i].gen # log[j].gen /\ log[i].err = NoError /\ log[j].err = NoError)
            => log[i].id # log[j].id

\* generators with IDs (0, 1) and (1, 0), their start times one tick apart,
\* returned identifiers at the same elapsedTime and sequence, and these differ
C13_Witness ==
    /\ settings[1].StartTime # settings[2].StartTime
    /\ df[1].machineID = 0 /\ df[1].serviceID = 1
    /\ df[2].machineID = 1 /\ df[2].serviceID = 0
    /\ \E i \in 1..Len(log) : \E j \in 1..Len(log) :
           /\ log[i].gen = 1 /\ log[j].gen = 2
           /\ log[i].err = NoError /\ log[j].err = NoError
           /\ log[i].elapsedTime = log[j].elapsedTime
           /\ log[i].sequence = log[j].sequence
           /\ log[i].id # log[j].id

---------------------------------------------------------------------------
(* Liveness of NextID (under SpecLive)                                     *)

\* C19: with a wall clock that keeps advancing and a mutex granted fairly,
\* every NextID call returns: the mutex is released after the sleep, on the
\* success path and on the "over the time limit" path, so a caller waiting
\* behind a sleeping or failing call does not wait forever.
C19_EveryCallReturns ==
    \A p \in Procs : (pc[p] # "idle") ~> (pc[p] = "idle")

\* a call that waited while another slept after sequence 4095 has returned
\* after it, with the error
C19_Witness ==
    /\ Len(log) = 3
    /\ log[1].sequence = Pow2(BitLenSequence) - 1
    /\ Wrapped(2)
    /\ log[3].err = OverTheTimeLimit
    /\ \A p \in Procs : pc[p] = "idle"

---------------------------------------------------------------------------
(* Frame of NextID and Decompose (under SpecFrame)                         *)

\* a NextID call updates the generator in this step (lines 134-141)
NextIDUpdates == \E p \in Procs : pc[p] = "waiting" /\ pc'[p] # "waiting"

\* C21: NextID, whether it returns an identifier or the error, leaves startTime,
\* machineID and serviceID as they are and invokes no provider or validator;
\* Decompose changes nothing of the generator; elapsedTime and sequence change
\* only in a NextID call.
C21_Frame ==
    [][/\ df'.startTime = df.startTime
       /\ df'.machineID = df.machineID
       /\ df'.serviceID = df.serviceID
       /\ invoked' = invoked
       /\ codec' # codec => df' = df
       /\ (df'.elapsedTime # df.elapsedTime \/ df'.sequence # df.sequence) => NextIDUpdates]_vars

\* NextID has returned an identifier and then the error, Decompose was called on
\* what it returned, and the generator has the start time and the IDs
\* NewDxyflake gave it, the providers invoked once
C21_Witness ==
    /\ Len(log) >= 2
    /\ log[1].err = NoError
    /\ log[Len(log)].err = OverTheTimeLimit
    /\ codec.phase = "decoded"
    /\ codec.result.err = OverTheTimeLimit
    /\ df.elapsedTime # NewDxyflake(settings, Clock0).df.elapsedTime
    /\ df.startTime = NewDxyflake(settings, Clock0).df.startTime
    /\ df.machineID = 32
    /\ df.serviceID = 0
    /\ invoked = <<[fn |-> "MachineID"]>>

=============================================================================
